---- MODULE Spec2Model ----
(***************************************************************************)
(* Client-side data layer of the navigation dashboard:                     *)
(*   - CacheManager            (src/src/utils/CacheManager.ts 12-130)      *)
(*   - NavigationCacheManager  (src/src/utils/CacheManager.ts 133-295)     *)
(*   - EnhancedNavigationClient write operations                           *)
(*                             (src/src/contexts/ThemeContext.tsx 499-)    *)
(*                                                                         *)
(* JavaScript strings that the code inspects character by character (the   *)
(* cache keys) are sequences of one-character strings, so that             *)
(* String.prototype.includes and the truthiness of a key are computed.     *)
(* Cached payloads are opaque; a payload is one of a few tokens, some of   *)
(* which stand for the falsy JavaScript values.                            *)
(***************************************************************************)
EXTENDS Integers, Sequences, FiniteSets, TLC

VARIABLES
    store,      \* CacheManager.memoryCache: entries in Map insertion order
    maxSize,    \* CacheManager.maxSize
    now,        \* the clock read by Date.now()
    stats,      \* NavigationCacheManager.stats: [hits, misses]
    calls,      \* coordinator reads suspended at `await fetchFunction()`
    fetches,    \* number of fetchFunction invocations so far
    last,       \* the operation that ran last, and what it returned
    searchHistory,  \* SmartSearchEngine.searchHistory, newest entry first
    storage,    \* localStorage item 'smart-search-history'
    groups,     \* the groups collection the caller hands to the search engine
    sites       \* the sites collection the caller hands to the search engine

\* The state of the cache classes and the state of the search engine
cacheVars == <<store, maxSize, stats, calls, fetches>>
engineVars == <<searchHistory, storage, groups, sites>>

vars == <<store, maxSize, now, stats, calls, fetches, last, searchHistory, storage, groups, sites>>

---------------------------------------------------------------------------
(* Bounds of the model *)

MaxCapacity == 2        \* capacities tried for a generic store: 0..MaxCapacity
MaxTime     == 2        \* clock bound of the generic store
MaxTTL      == 1        \* ttl arguments tried: 1..MaxTTL
MaxJumps    == 1        \* TTL periods the coordinator's clock runs through
MaxCalls    == 2        \* coordinator reads that can be in flight together
MaxMisses   == 2        \* cap of stats.misses
MaxHits     == 1        \* cap of stats.hits
MaxSeeded   == 2        \* keys put into the coordinator's store directly
MaxSearches == 2        \* history entries recorded by searches of one run

---------------------------------------------------------------------------
(* JavaScript values *)

JSNull  == "null"
JSZero  == "0"

\* Errors a fetch function can reject with.
Errors == {"e1", "e2"}

\* `if (cached)`: null, 0, "" and false are falsy.
Truthy(v) == v \notin {JSNull, JSZero, "", "false"}

\* `if (firstKey)`: undefined and the empty string are falsy.
TruthyKey(k) == k # <<>>

\* String.prototype.includes
Includes(s, sub) ==
    \E i \in 0..(Len(s) - Len(sub)) : SubSeq(s, i + 1, i + Len(sub)) = sub

---------------------------------------------------------------------------
(* Cache keys *)

KeyGroupsWithSites == <<"g","r","o","u","p","s","W","i","t","h","S","i","t","e","s">>
KeyAllSites        == <<"a","l","l","_","s","i","t","e","s">>
KeySitesGroupPfx   == <<"s","i","t","e","s","_","g","r","o","u","p","_">>
KeyConfigs         == <<"c","o","n","f","i","g","s">>
KeySitesAll        == <<"s","i","t","e","s","_","a","l","l">>
KeyGroupsAll       == <<"g","r","o","u","p","s","_","a","l","l">>

\* Template literal `${groupId}` for the group ids of the model.
GroupIdText(groupId) == IF groupId = 1 THEN <<"1">> ELSE <<"2">>

\* groupId ? `sites_group_${groupId}` : 'all_sites'   (0 stands for undefined or 0)
SitesCacheKey(groupId) ==
    IF groupId # 0 THEN KeySitesGroupPfx \o GroupIdText(groupId) ELSE KeyAllSites

---------------------------------------------------------------------------
(* CacheManager on a value `s` of the Map *)

NoEntry == [key |-> <<>>, data |-> JSNull, timestamp |-> -1, ttl |-> -1]

MapHas(s, key) == \E i \in 1..Len(s) : s[i].key = key

MapIndex(s, key) == CHOOSE i \in 1..Len(s) : s[i].key = key

\* Map.get: the entry, or NoEntry for undefined
MapGet(s, key) == IF MapHas(s, key) THEN s[MapIndex(s, key)] ELSE NoEntry

\* Map.delete
MapDelete(s, key) == SelectSeq(s, LAMBDA e : e.key # key)

\* Map.set: an existing key keeps its position, a new one goes last
MapSet(s, key, entry) ==
    IF MapHas(s, key)
    THEN [s EXCEPT ![MapIndex(s, key)] = entry]
    ELSE Append(s, entry)

MapKeys(s) == [i \in 1..Len(s) |-> s[i].key]

KeySet(s) == {s[i].key : i \in 1..Len(s)}

\* (a bug variant: an entry already counts as expired at the boundary)
ExpiredAtBoundary(e, t) == t - e.timestamp >= e.ttl

\* now - entry.timestamp > entry.ttl
Expired(e, t) == t - e.timestamp > e.ttl

\* CacheManager.cleanupExpired
CleanupExpired(s, t) == SelectSeq(s, LAMBDA e : ~Expired(e, t))

\* The eviction step of CacheManager.set (lines 31-36)
EvictOldest(s, cap) ==
    IF Len(s) >= cap
    THEN IF s # <<>> /\ TruthyKey(Head(s).key) THEN MapDelete(s, Head(s).key) ELSE s
    ELSE s

\* CacheManager.set
CacheSet(s, cap, key, data, ttl, t) ==
    MapSet(EvictOldest(CleanupExpired(s, t), cap), key,
           [key |-> key, data |-> data, timestamp |-> t, ttl |-> ttl])

\* CacheManager.get: the value returned
CacheGet(s, key, t) ==
    IF ~MapHas(s, key) THEN JSNull
    ELSE IF Expired(MapGet(s, key), t) THEN JSNull
    ELSE MapGet(s, key).data

\* CacheManager.get: the Map it leaves
CacheGetStore(s, key, t) ==
    IF MapHas(s, key) /\ Expired(MapGet(s, key), t) THEN MapDelete(s, key) ELSE s

\* CacheManager.has
CacheHas(s, key, t) == CacheGet(s, key, t) # JSNull

---------------------------------------------------------------------------
(* State shared by the two specifications *)

CallIds == 1..MaxCalls

\* A read suspended at the await keeps its arguments; seen and stale record the
\* payload the store held under its key when the read was made, and whether that
\* entry had expired (history fields, read by the properties only).
IdleCall == [pc |-> "idle", key |-> <<>>, force |-> FALSE, seen |-> "none", stale |-> FALSE]

\* What the operation that ran last was, and what its caller got back; gone is
\* the set of keys an invalidation removed.
LastGone(op, key, kind, ret, gone) ==
    [op |-> op, key |-> key, kind |-> kind, ret |-> ret, gone |-> gone]

Last(op, key, kind, ret) == LastGone(op, key, kind, ret, {})

InitCommon ==
    /\ store = <<>>
    /\ now = 0
    /\ stats = [hits |-> 0, misses |-> 0]
    /\ calls = [c \in CallIds |-> IdleCall]
    /\ fetches = 0
    /\ last = Last("init", <<>>, "", "")
    /\ searchHistory = <<>>
    /\ storage = [kind |-> "absent", value |-> <<>>]
    /\ groups = <<>>
    /\ sites = <<>>

---------------------------------------------------------------------------
(* A generic CacheManager: new CacheManager(maxSize), driven directly *)

StoreKeys == {<<>>, <<"a">>, <<"b">>}

StoreValues == {"v1", JSNull}

TTLs == 1..MaxTTL

InitStore ==
    /\ InitCommon
    /\ maxSize \in 0..MaxCapacity

\* set(key, data, ttl)
Set(key, data, ttl) ==
    /\ last' = Last("set", key, "", "")
    /\ store' = CacheSet(store, maxSize, key, data, ttl, now)
    /\ UNCHANGED <<maxSize, now, stats, calls, fetches, engineVars>>

\* get(key)
Get(key) ==
    /\ last' = Last("get", key,
                    IF ~MapHas(store, key) THEN "absent"
                    ELSE IF Expired(MapGet(store, key), now) THEN "expired" ELSE "fresh",
                    CacheGet(store, key, now))
    /\ store' = CacheGetStore(store, key, now)
    /\ UNCHANGED <<maxSize, now, stats, calls, fetches, engineVars>>

\* has(key)
Has(key) ==
    /\ store' = CacheGetStore(store, key, now)
    /\ last' = Last("has", key, "",
                    IF CacheHas(store, key, now) THEN "true" ELSE "false")
    /\ UNCHANGED <<maxSize, now, stats, calls, fetches, engineVars>>

\* delete(key)
Delete(key) ==
    /\ store' = MapDelete(store, key)
    /\ last' = Last("delete", key, "", "")
    /\ UNCHANGED <<maxSize, now, stats, calls, fetches, engineVars>>

\* clear()
Clear ==
    /\ store' = <<>>
    /\ last' = Last("clear", <<>>, "", "")
    /\ UNCHANGED <<maxSize, now, stats, calls, fetches, engineVars>>

\* keys()
Keys ==
    /\ store' = CleanupExpired(store, now)
    /\ last' = Last("keys", <<>>, "", "")
    /\ UNCHANGED <<maxSize, now, stats, calls, fetches, engineVars>>

\* cleanupExpired()
Cleanup ==
    /\ store' = CleanupExpired(store, now)
    /\ last' = Last("cleanupExpired", <<>>, "", "")
    /\ UNCHANGED <<maxSize, now, stats, calls, fetches, engineVars>>

\* Date.now() advances by one millisecond
Tick ==
    /\ now < MaxTime
    /\ now' = now + 1
    /\ last' = Last("tick", <<>>, "", "")
    /\ UNCHANGED <<store, maxSize, stats, calls, fetches, engineVars>>

SetAny == \E key \in StoreKeys, data \in StoreValues, ttl \in TTLs : Set(key, data, ttl)
GetAny == \E key \in StoreKeys : Get(key)
HasAny == \E key \in StoreKeys : Has(key)
DeleteAny == \E key \in StoreKeys : Delete(key)

NextStore ==
    \/ SetAny
    \/ GetAny
    \/ HasAny
    \/ DeleteAny
    \/ Clear
    \/ Keys
    \/ Cleanup
    \/ Tick

SpecStore == InitStore /\ [][NextStore]_vars

---------------------------------------------------------------------------
(* NavigationCacheManager: new CacheManager(2000, 10 * 60 * 1000) *)

NavMaxSize == 2000

NavDefaultTTL == 10 * 60 * 1000

NavValues == {"v1", "v2", JSZero}

GroupIds == {0, 1}

InvalidateTypes == {"groups", "sites", "configs", "all"}

\* The keys the coordinator's reads use
ReadKeys == {KeyGroupsWithSites, KeyConfigs} \cup {SitesCacheKey(g) : g \in GroupIds}

InitNav ==
    /\ InitCommon
    /\ maxSize = NavMaxSize

\* (a bug variant: the filter forgets to test the type)
InvalidateMatchesAnyType(type, key) ==
    \/ Includes(key, <<"g","r","o","u","p">>)
    \/ Includes(key, <<"s","i","t","e">>)
    \/ Includes(key, <<"c","o","n","f","i","g">>)

\* The filter of invalidate (lines 263-268)
InvalidateMatches(type, key) ==
    \/ type = "groups" /\ Includes(key, <<"g","r","o","u","p">>)
    \/ type = "sites" /\ Includes(key, <<"s","i","t","e">>)
    \/ type = "configs" /\ Includes(key, <<"c","o","n","f","i","g">>)

\* NavigationCacheManager.invalidate: the Map it leaves
InvalidateStore(s, type, t) ==
    IF type = "all"
    THEN <<>>
    ELSE SelectSeq(CleanupExpired(s, t), LAMBDA e : ~InvalidateMatches(type, e.key))

\* `const cached = this.cache.get(cacheKey); if (cached)` (lines 160-161)
ReadHits(s, key, t) == Truthy(CacheGet(s, key, t))

\* The record of a read suspended at `await fetchFunction()`
Suspended(key, force) ==
    [pc |-> "fetching", key |-> key, force |-> force,
     seen |-> IF MapHas(store, key) THEN MapGet(store, key).data ELSE "none",
     stale |-> MapHas(store, key) /\ Expired(MapGet(store, key), now)]

\* (a bug variant: a read that finds a fetch for its key in flight joins it
\* instead of counting a miss and invoking its own fetch function)
ReadMissCoalesced(c, key, force) ==
    /\ stats.misses < MaxMisses
    /\ last' = Last("read", key, "start", "")
    /\ IF \E d \in CallIds : calls[d].pc = "fetching" /\ calls[d].key = key
       THEN UNCHANGED <<stats, fetches>>
       ELSE /\ stats' = [stats EXCEPT !.misses = @ + 1]
            /\ fetches' = fetches + 1
    /\ calls' = [calls EXCEPT ![c] = Suspended(key, force)]

\* `this.stats.misses++` and the call of fetchFunction (lines 167-170)
ReadMiss(c, key, force) ==
    /\ stats.misses < MaxMisses
    /\ last' = Last("read", key, "start", "")
    /\ stats' = [stats EXCEPT !.misses = @ + 1]
    /\ fetches' = fetches + 1
    /\ calls' = [calls EXCEPT ![c] = Suspended(key, force)]

\* `this.stats.hits++; return cached` (lines 162-163)
ReadHit(key, cached) ==
    /\ stats.hits < MaxHits
    /\ last' = Last("read", key, "hit", cached)
    /\ stats' = [stats EXCEPT !.hits = @ + 1]
    /\ UNCHANGED <<calls, fetches>>

\* Lines 159-170 of a read: the cache probe, then either the hit or the miss
\* that invokes fetchFunction and suspends at the await.  A read that suspends
\* is put after the reads already suspended.
ReadStart(c, key, force) ==
    /\ calls[c].pc = "idle"
    /\ \A d \in CallIds : d < c => calls[d].pc # "idle"
    /\ IF ~force /\ ReadHits(store, key, now)
       THEN ReadHit(key, CacheGet(store, key, now))
       ELSE ReadMiss(c, key, force)
    /\ store' = IF force THEN store ELSE CacheGetStore(store, key, now)
    /\ UNCHANGED <<maxSize, now, engineVars>>

\* getGroupsWithSites(fetchFunction, forceRefresh), up to the await
GetGroupsWithSites(c, force) == ReadStart(c, KeyGroupsWithSites, force)

\* getSites(fetchFunction, groupId, forceRefresh), up to the await
GetSites(c, groupId, force) == ReadStart(c, SitesCacheKey(groupId), force)

\* getConfigs(fetchFunction, forceRefresh), up to the await
GetConfigs(c, force) == ReadStart(c, KeyConfigs, force)

\* The reads still suspended once read c has come back from its await: calls
\* lists the suspended reads in the order they were made.
Resumed(c) ==
    [d \in CallIds |->
        IF d < c THEN calls[d]
        ELSE IF d < MaxCalls THEN calls[d + 1] ELSE IdleCall]

\* fetchFunction resolved with data: lines 170-172
FetchResolve(c, data) ==
    /\ calls[c].pc = "fetching"
    /\ last' = Last("read", calls[c].key, "fetched", data)
    /\ calls' = Resumed(c)
    /\ store' = CacheSet(store, maxSize, calls[c].key, data, NavDefaultTTL, now)
    /\ UNCHANGED <<maxSize, now, stats, fetches, engineVars>>

\* fetchFunction rejected with error: lines 173-181
FetchReject(c, error) ==
    /\ calls[c].pc = "fetching"
    /\ calls' = Resumed(c)
    /\ LET cached == CacheGet(store, calls[c].key, now)
       IN /\ last' = IF Truthy(cached)
                     THEN Last("read", calls[c].key, "fallback", cached)
                     ELSE Last("read", calls[c].key, "throw", error)
          /\ store' = CacheGetStore(store, calls[c].key, now)
    /\ UNCHANGED <<maxSize, now, stats, fetches, engineVars>>

\* invalidate(type)
Invalidate(type) ==
    /\ store' = InvalidateStore(store, type, now)
    /\ last' = LastGone("invalidate", <<>>, "", type,
                        KeySet(store) \ KeySet(InvalidateStore(store, type, now)))
    /\ UNCHANGED <<maxSize, now, stats, calls, fetches, engineVars>>

\* Date.now() between two operations: the clock reaches the end of a TTL
\* period exactly, or passes it by one millisecond
ClockSteps == {NavDefaultTTL, NavDefaultTTL + 1}

NavAdvance(d) ==
    /\ now < MaxJumps * NavDefaultTTL
    /\ now' = now + d
    /\ last' = Last("tick", <<>>, "", "")
    /\ UNCHANGED <<store, maxSize, stats, calls, fetches, engineVars>>

NavAdvanceAny == \E d \in ClockSteps : NavAdvance(d)

GetGroupsWithSitesAny == \E c \in CallIds, force \in BOOLEAN : GetGroupsWithSites(c, force)
GetSitesAny ==
    \E c \in CallIds, groupId \in GroupIds, force \in BOOLEAN : GetSites(c, groupId, force)
GetConfigsAny == \E c \in CallIds, force \in BOOLEAN : GetConfigs(c, force)
FetchResolveAny == \E c \in CallIds, data \in NavValues : FetchResolve(c, data)
FetchRejectAny == \E c \in CallIds, error \in Errors : FetchReject(c, error)
InvalidateAny == \E type \in InvalidateTypes : Invalidate(type)

NextNav ==
    \/ GetGroupsWithSitesAny
    \/ GetSitesAny
    \/ GetConfigsAny
    \/ FetchResolveAny
    \/ FetchRejectAny
    \/ InvalidateAny
    \/ NavAdvanceAny

\* The coordinator alone, driven through its public methods
SpecNav == InitNav /\ [][NextNav]_vars

---------------------------------------------------------------------------
(* EnhancedNavigationClient: the write operations *)

SiteWrites == {"createSite", "updateSite", "deleteSite", "updateSiteOrder"}

GroupWrites == {"createGroup", "updateGroup", "deleteGroup", "updateGroupOrder"}

\* The argument of the navigationCacheManager.invalidate call of a write
WriteInvalidates(op) == IF op \in SiteWrites THEN "sites" ELSE "groups"

\* createSite, updateSite, ...: this.request(...) resolved, then invalidate
WriteOk(op) ==
    /\ store' = InvalidateStore(store, WriteInvalidates(op), now)
    /\ last' = LastGone("write", <<>>, "ok", WriteInvalidates(op),
                        KeySet(store) \ KeySet(InvalidateStore(store, WriteInvalidates(op), now)))
    /\ UNCHANGED <<maxSize, now, stats, calls, fetches, engineVars>>

\* createSite, updateSite, ...: this.request(...) rejected, the catch rethrows
WriteFail(op) ==
    /\ last' = Last("write", <<>>, "throw", "")
    /\ UNCHANGED <<store, maxSize, now, stats, calls, fetches, engineVars>>

WriteOkAny == \E op \in SiteWrites \cup GroupWrites : WriteOk(op)
WriteFailAny == \E op \in SiteWrites \cup GroupWrites : WriteFail(op)

\* The client's cached reads are the coordinator's reads with forceRefresh left
\* at its default (getGroups, getGroupsWithSites, getSites, getConfigs).
ClientGetGroupsWithSites == \E c \in CallIds : GetGroupsWithSites(c, FALSE)
ClientGetSites == \E c \in CallIds, groupId \in GroupIds : GetSites(c, groupId, FALSE)
ClientGetConfigs == \E c \in CallIds : GetConfigs(c, FALSE)

NextClient ==
    \/ ClientGetGroupsWithSites
    \/ ClientGetSites
    \/ ClientGetConfigs
    \/ FetchResolveAny
    \/ FetchRejectAny
    \/ WriteOkAny
    \/ WriteFailAny
    \/ NavAdvanceAny

\* The API client on top of the coordinator
SpecClient == InitNav /\ [][NextClient]_vars

---------------------------------------------------------------------------
(* The coordinator's store filled key by key, to see what invalidate removes *)

SeedKeys ==
    {KeySitesAll, KeyGroupsAll, KeyGroupsWithSites, KeyAllSites, KeyConfigs,
     SitesCacheKey(1), SitesCacheKey(2)}

SeedValues == {"v1", "v2"}

\* cache.set(key, data) on the coordinator's store, as in
\* set("sites_all", x); set("groups_all", y)
Seed(key, data) ==
    /\ MapHas(store, key) \/ Len(store) < MaxSeeded
    /\ last' = Last("set", key, "", "")
    /\ store' = CacheSet(store, maxSize, key, data, NavDefaultTTL, now)
    /\ UNCHANGED <<maxSize, now, stats, calls, fetches, engineVars>>

SeedAny == \E key \in SeedKeys, data \in SeedValues : Seed(key, data)

NextScope ==
    \/ SeedAny
    \/ InvalidateAny
    \/ NavAdvanceAny

SpecScope == InitNav /\ [][NextScope]_vars

---------------------------------------------------------------------------
(* Properties of the generic CacheManager (checked under SpecStore) *)

\* C2: capacity invariant of the expiring store -- for every capacity >= 0 and
\* every sequence of set/get/has/delete/clear/keys/cleanupExpired calls over
\* arbitrary string keys (the empty key included), the store never holds more
\* than capacity entries.
C2_CapacityInvariant == Len(store) <= maxSize

\* C3: FIFO eviction victim -- with capacity >= 1, when the store holds capacity
\* distinct keys, none of them expired, and one more distinct key is inserted
\* with set, exactly capacity keys remain and the one missing is the key that
\* was inserted first; reads in between change nothing of that.
C3_FifoVictim ==
    [][\A key \in StoreKeys, data \in StoreValues, ttl \in TTLs :
          ( /\ Set(key, data, ttl)
            /\ maxSize >= 1
            /\ Len(store) = maxSize
            /\ ~MapHas(store, key)
            /\ \A i \in 1..Len(store) : now - store[i].timestamp <= store[i].ttl )
          => MapKeys(store') = Tail(MapKeys(store)) \o <<key>>
      ]_vars

\* C4: freshness -- set(k, v, ttl) with ttl > 0 stores v with storedAt = now and
\* that ttl; get(k) returns v as long as now - storedAt <= ttl (the boundary
\* included) and leaves the store alone; at any time with now - storedAt > ttl
\* it returns null and the entry is gone from the store afterwards.
C4_Freshness ==
    [][/\ last'.op = "set" =>
            \A data \in StoreValues, ttl \in TTLs :
                Set(last'.key, data, ttl) =>
                    /\ MapHas(store', last'.key)
                    /\ MapGet(store', last'.key).data = data
                    /\ MapGet(store', last'.key).timestamp = now
                    /\ MapGet(store', last'.key).ttl = ttl
       /\ last'.op = "get" =>
            \A key \in StoreKeys :
                (MapHas(store, key) /\ Get(key)) =>
                    IF now - MapGet(store, key).timestamp <= MapGet(store, key).ttl
                    THEN last'.ret = MapGet(store, key).data /\ store' = store
                    ELSE last'.ret = JSNull /\ ~MapHas(store', key)
      ]_vars

\* C4 witness: a get has just found its entry stale, returned null and removed it.
C4_Witness ==
    /\ last.op = "get"
    /\ last.kind = "expired"
    /\ last.ret = JSNull
    /\ ~MapHas(store, last.key)

---------------------------------------------------------------------------
(* Properties of the coordinator (SpecNav), of the client (SpecClient) and   *)
(* of the invalidation scope (SpecScope)                                     *)

\* now - storedAt <= ttl for the entry under key
FreshIn(s, key, t) == MapHas(s, key) /\ t - MapGet(s, key).timestamp <= MapGet(s, key).ttl

\* What a probe of the coordinator treats as a usable cached value
UsableIn(s, key, t) == FreshIn(s, key, t) /\ MapGet(s, key).data \notin {JSNull, JSZero}

\* C1: stale-on-failure fallback -- if the store held an entry k -> v1 whose TTL
\* had elapsed when the read for k was made (forceRefresh false or true) and the
\* fetch function fails, the read returns v1 and raises nothing.
C1_StaleFallback ==
    [][\A c \in CallIds, e \in Errors :
          (FetchReject(c, e) /\ calls[c].stale)
          => (last'.kind = "fallback" /\ last'.ret = calls[c].seen)
      ]_vars

\* C5: read-through hit -- while the store holds a value v that a successful
\* fetch put under k and its TTL has not elapsed, a read of k with
\* forceRefresh = false returns v, adds one to the hit counter and invokes no
\* fetch function.
C5_ReadThroughHit ==
    [][\A c \in CallIds, key \in ReadKeys :
          (ReadStart(c, key, FALSE) /\ FreshIn(store, key, now))
          => /\ last'.kind = "hit"
             /\ last'.ret = MapGet(store, key).data
             /\ stats'.hits = stats.hits + 1
             /\ fetches' = fetches
      ]_vars

\* C6: no stale read after a user mutation -- right after a successful write on
\* sites (createSite, updateSite, deleteSite, updateSiteOrder) no cached read of
\* a collection holding sites (getSites of any group id, getGroupsWithSites)
\* would be served from the cache, and right after a successful write on groups
\* (createGroup, updateGroup, deleteGroup, updateGroupOrder) getGroups /
\* getGroupsWithSites would not be served from the cache: each invokes its fetch.
C6_NoStaleReadAfterWrite ==
    \A op \in SiteWrites \cup GroupWrites :
        (last.op = "write" /\ last.kind = "ok" /\ last.ret = WriteInvalidates(op))
        => /\ ~ReadHits(store, KeyGroupsWithSites, now)
           /\ op \in SiteWrites =>
                 \A g \in GroupIds : ~ReadHits(store, SitesCacheKey(g), now)

\* C7: invalidation scope -- with fresh entries under "sites_all" and
\* "groups_all", invalidate("sites") removes "sites_all" and leaves "groups_all"
\* in the store with its entry unchanged.
C7_InvalidationScope ==
    [][( /\ Invalidate("sites")
         /\ FreshIn(store, KeySitesAll, now)
         /\ FreshIn(store, KeyGroupsAll, now) )
       => /\ ~MapHas(store', KeySitesAll)
          /\ MapHas(store', KeyGroupsAll)
          /\ MapGet(store', KeyGroupsAll) = MapGet(store, KeyGroupsAll)
      ]_vars

\* C7 witness: invalidate("sites") has just removed "sites_all" (and nothing
\* else) from a store that still holds "groups_all".
C7_Witness ==
    /\ last.op = "invalidate"
    /\ last.ret = "sites"
    /\ last.gone = {KeySitesAll}
    /\ FreshIn(store, KeyGroupsAll, now)

\* C8: fetch failure without fallback -- a read that finds no usable cached
\* value counts one miss; when its fetch function then fails with e and there
\* is still no usable cached value, the read fails with exactly e, and neither
\* its probe at the start nor its probe at the failure has changed the store.
C8_FailureWithoutFallback ==
    [][\A c \in CallIds :
          /\ \A key \in ReadKeys, force \in BOOLEAN :
                (ReadStart(c, key, force) /\ (force \/ ~UsableIn(store, key, now)))
                => stats'.misses = stats.misses + 1
          /\ \A e \in Errors :
                (FetchReject(c, e) /\ ~UsableIn(store, calls[c].key, now))
                => /\ last'.kind = "throw"
                   /\ last'.ret = e
                   /\ store' = store
                   /\ calls[c].force \/ ~calls[c].stale
      ]_vars

\* C9: forced refresh degrades to the cached value -- a read with
\* forceRefresh = true of a key that holds a fresh value v invokes the fetch
\* function; if the fetch succeeds with w, w is returned and the store holds w;
\* if it fails (the entry seen at the call still being in the store), v is
\* returned, nothing is raised and the entry is left as it was.
C9_ForcedRefresh ==
    [][\A c \in CallIds :
          /\ \A key \in ReadKeys :
                (ReadStart(c, key, TRUE) /\ FreshIn(store, key, now))
                => (calls'[c].pc = "fetching" /\ fetches' = fetches + 1)
          /\ \A w \in NavValues :
                (FetchResolve(c, w) /\ calls[c].force /\ calls[c].seen # "none"
                    /\ ~calls[c].stale)
                => (last'.ret = w /\ MapGet(store', calls[c].key).data = w)
          /\ \A e \in Errors :
                (FetchReject(c, e) /\ calls[c].force /\ calls[c].seen # "none"
                    /\ ~calls[c].stale
                    /\ MapHas(store, calls[c].key)
                    /\ MapGet(store, calls[c].key).data = calls[c].seen)
                => /\ last'.kind = "fallback"
                   /\ last'.ret = calls[c].seen
                   /\ MapGet(store', calls[c].key) = MapGet(store, calls[c].key)
      ]_vars

\* Call c was made while its key was absent, and another read of the same key
\* is in flight with it or has completed during its flight.
Raced(c) ==
    /\ calls[c].pc = "fetching"
    /\ calls[c].seen = "none"
    /\ \/ \E d \in CallIds \ {c} :
             /\ calls[d].pc = "fetching"
             /\ calls[d].key = calls[c].key
             /\ calls[d].seen = "none"
       \/ MapHas(store, calls[c].key)

\* A step in which a read returns or suspends / in which a suspended read ends
ReadBegins == last'.op = "read" /\ last'.kind \in {"start", "hit"}
ReadEnds == last'.op = "read" /\ last'.kind \in {"fetched", "fallback", "throw"}

\* A read of an absent key made while another read of that key is in flight
\* counts its own miss and invokes its own fetch function.
NoCoalescing ==
    ReadBegins =>
        \A c \in CallIds, force \in BOOLEAN :
            ( /\ ~MapHas(store, last'.key)
              /\ \E d \in CallIds \ {c} :
                    calls[d].pc = "fetching" /\ calls[d].key = last'.key
              /\ ReadStart(c, last'.key, force) )
            => /\ calls'[c].pc = "fetching"
               /\ stats'.misses = stats.misses + 1
               /\ fetches' = fetches + 1

\* A racing read whose fetch succeeds returns its own result and leaves it in
\* the store.
OwnResultOnSuccess ==
    ReadEnds =>
        \A c \in CallIds :
            Raced(c) =>
                \A w \in NavValues :
                    FetchResolve(c, w)
                    => /\ last'.kind = "fetched"
                       /\ last'.ret = w
                       /\ MapGet(store', calls[c].key).data = w
                       /\ MapGet(store', calls[c].key).timestamp = now

---------------------------------------------------------------------------
(* SmartSearchEngine (src/src/utils/performance.ts 275-853): strings *)

\* Texts are sequences of one-character strings.  A field that is undefined
\* is the marker Undefined; a template literal renders it as "undefined".
Undefined == <<"undefined">>

UndefinedText == <<"u","n","d","e","f","i","n","e","d">>

\* `${x}` in a template literal
Template(x) == IF x = Undefined THEN UndefinedText ELSE x

\* `x || ''`: undefined and the empty string give ''
OrEmpty(x) == IF x = Undefined THEN <<>> ELSE x

\* `x && ...`: undefined and the empty string are falsy
TruthyText(x) == x # Undefined /\ x # <<>>

Space == <<" ">>

LowerChar(ch) ==
    CASE ch = "A" -> "a"
      [] ch = "B" -> "b"
      [] ch = "C" -> "c"
      [] OTHER -> ch

\* String.prototype.toLowerCase
ToLowerCase(s) == [i \in 1..Len(s) |-> LowerChar(s[i])]

\* String.prototype.startsWith
StartsWith(s, prefix) ==
    Len(prefix) <= Len(s) /\ SubSeq(s, 1, Len(prefix)) = prefix

RECURSIVE TrimStart(_)
TrimStart(s) == IF s # <<>> /\ Head(s) = " " THEN TrimStart(Tail(s)) ELSE s

RECURSIVE TrimEnd(_)
TrimEnd(s) ==
    IF s # <<>> /\ s[Len(s)] = " " THEN TrimEnd(SubSeq(s, 1, Len(s) - 1)) ELSE s

\* String.prototype.trim
Trim(s) == TrimEnd(TrimStart(s))

\* (a bug variant: only the empty string counts as no query)
IsBlankUntrimmed(query) == query = <<>>

\* `!query || !query.trim()`
IsBlank(query) == Trim(query) = <<>>

\* Length of the run of non-blank characters at the head of s (s starts with one)
WordLen(s) ==
    CHOOSE k \in 1..Len(s) :
        /\ \A j \in 1..k : s[j] # " "
        /\ k = Len(s) \/ s[k + 1] = " "

\* split(/\s+/).filter(term => term.length > 0)
RECURSIVE Terms(_)
Terms(s) ==
    LET t == TrimStart(s)
    IN IF t = <<>> THEN <<>>
       ELSE <<SubSeq(t, 1, WordLen(t))>> \o Terms(SubSeq(t, WordLen(t) + 1, Len(t)))

\* split(/\s+/): a text that begins or ends with white space (or is empty)
\* yields an empty word there
SplitWhitespace(s) ==
    IF s = <<>> THEN << <<>> >>
    ELSE (IF Head(s) = " " THEN << <<>> >> ELSE <<>>)
         \o Terms(s)
         \o (IF s[Len(s)] = " " THEN << <<>> >> ELSE <<>>)

\* slice(0, n)
Slice(s, n) == SubSeq(s, 1, IF Len(s) < n THEN Len(s) ELSE n)

\* Array.prototype.sort with a consistent comparator: the sort is stable, so
\* an element moves in front of exactly those it compares below, and of the
\* equal ones that came after it.  Compare(a, b) < 0 puts a first.
Sort(s, Compare(_, _)) ==
    LET Place(i) == 1 + Cardinality({j \in 1..Len(s) :
                                        \/ Compare(s[j], s[i]) < 0
                                        \/ Compare(s[j], s[i]) = 0 /\ j < i})
        rank == SubSeq([i \in 1..Len(s) |-> Place(i)], 1, Len(s))
    IN [k \in 1..Len(s) |-> s[CHOOSE i \in 1..Len(s) : rank[i] = k]]

---------------------------------------------------------------------------
(* SmartSearchEngine: the three passes, the merge and the ranking *)

\* null handed over where a list is expected
NullCollection == <<[null |-> TRUE]>>

\* `'group_id' in item`
IsSite(item) == "group_id" \in DOMAIN item

\* getItemTextForScoring
GetItemTextForScoring(item) ==
    IF IsSite(item)
    THEN ToLowerCase(Template(item.name) \o Space \o OrEmpty(item.url) \o Space
                     \o OrEmpty(item.description) \o Space \o OrEmpty(item.notes))
    ELSE ToLowerCase(Template(item.name))

\* The while loop of fuzzyMatch
RECURSIVE FuzzyScan(_, _)
FuzzyScan(text, pattern) ==
    IF pattern = <<>> THEN TRUE
    ELSE IF text = <<>> THEN FALSE
    ELSE IF Head(text) = Head(pattern) THEN FuzzyScan(Tail(text), Tail(pattern))
    ELSE FuzzyScan(Tail(text), pattern)

\* fuzzyMatch
FuzzyMatch(text, pattern) ==
    IF Len(pattern) = 0 THEN TRUE
    ELSE IF Len(text) < Len(pattern) THEN FALSE
    ELSE FuzzyScan(text, pattern)

\* What one query term adds to the score (lines 482-496)
TermScore(lowerText, term) ==
    IF lowerText = term THEN 100
    ELSE IF StartsWith(lowerText, term) THEN 50
    ELSE IF Includes(lowerText, term) THEN 20
    ELSE IF FuzzyMatch(lowerText, term) THEN 5
    ELSE 0

RECURSIVE SumTermScores(_, _)
SumTermScores(lowerText, queryTerms) ==
    IF queryTerms = <<>> THEN 0
    ELSE TermScore(lowerText, Head(queryTerms)) + SumTermScores(lowerText, Tail(queryTerms))

\* calculateRelevanceScore, in halves of a point: the bonus `score *= 1.5`
\* makes 3 halves of every point, no bonus makes 2
CalculateRelevanceScore(item, queryTerms) ==
    LET lowerText == ToLowerCase(GetItemTextForScoring(item))
        score == SumTermScores(lowerText, queryTerms)
        matchedTerms == Len(SelectSeq(queryTerms, LAMBDA term : Includes(lowerText, term)))
    IN IF matchedTerms = Len(queryTerms) THEN 3 * score ELSE 2 * score

\* matchesQuery
MatchesQuery(item, query) == Includes(GetItemTextForScoring(item), query)

\* One test of getMatchingFields
FieldIfMatching(text, field, query) ==
    IF Includes(ToLowerCase(text), query) THEN <<field>> ELSE <<>>

\* getMatchingFields
GetMatchingFields(item, query) ==
    IF IsSite(item)
    THEN FieldIfMatching(item.name, "name", query)
         \o (IF TruthyText(item.url)
             THEN FieldIfMatching(item.url, "url", query) ELSE <<>>)
         \o (IF TruthyText(item.description)
             THEN FieldIfMatching(item.description, "description", query) ELSE <<>>)
         \o (IF TruthyText(item.notes)
             THEN FieldIfMatching(item.notes, "notes", query) ELSE <<>>)
    ELSE FieldIfMatching(item.name, "name", query)

\* A SearchResultItem; semanticScore 0 stands for a result without the field
ResultItem(type, item, matchedFields, semanticScore) ==
    [type |-> type, id |-> item.id, name |-> item.name,
     matchedFields |-> matchedFields, semanticScore |-> semanticScore]

\* items.map(f), for the results built from a list of records
MapResults(items, F(_)) == [i \in 1..Len(items) |-> F(items[i])]

\* performBasicSearch
PerformBasicSearch(query, gs, ss) ==
    MapResults(SelectSeq(ss, LAMBDA site : MatchesQuery(site, query)),
               LAMBDA site : ResultItem("site", site, GetMatchingFields(site, query), 0))
    \o MapResults(SelectSeq(gs, LAMBDA group : MatchesQuery(group, query)),
                  LAMBDA group : ResultItem("group", group, GetMatchingFields(group, query), 0))

\* (b, a) => b.score - a.score
CompareScored(a, b) == b.score - a.score

\* The cap of performSmartSearch: slice(0, 20)
SmartLimit == 20

\* performSmartSearch
PerformSmartSearch(query, gs, ss) ==
    LET queryTerms == Terms(ToLowerCase(query))
        scoredResults ==
            MapResults(ss, LAMBDA site :
                [item |-> site, type |-> "site",
                 score |-> CalculateRelevanceScore(site, queryTerms)])
            \o MapResults(gs, LAMBDA group :
                [item |-> group, type |-> "group",
                 score |-> CalculateRelevanceScore(group, queryTerms)])
        highScoreResults ==
            Slice(Sort(SelectSeq(scoredResults, LAMBDA r : r.score > 0), CompareScored),
                  SmartLimit)
    IN MapResults(highScoreResults,
                  LAMBDA r : ResultItem(r.type, r.item, GetMatchingFields(r.item, query), 0))

\* Number of positions at which s1 and s2 carry the same character (lines 704-711)
CommonChars(s1, s2) ==
    LET minLength == IF Len(s1) < Len(s2) THEN Len(s1) ELSE Len(s2)
    IN Cardinality({k \in 1..minLength : s1[k] = s2[k]})

\* calculateSimilarity, as the fraction num / den
CalculateSimilarity(str1, str2) ==
    LET s1 == ToLowerCase(str1)
        s2 == ToLowerCase(str2)
    IN IF s1 = s2 THEN [num |-> 1, den |-> 1]
       ELSE IF Includes(s1, s2) \/ Includes(s2, s1) THEN [num |-> 8, den |-> 10]
       ELSE [num |-> CommonChars(s1, s2),
             den |-> IF Len(s1) > Len(s2) THEN Len(s1) ELSE Len(s2)]

\* `this.calculateSimilarity(term, word) > 0.7`
IsSimilar(term, word) ==
    LET sim == CalculateSimilarity(term, word) IN 10 * sim.num > 7 * sim.den

\* The semanticScore one term adds for a text (lines 627-638)
TermSemanticScore(text, term) ==
    (IF Includes(text, term) THEN 10 ELSE 0)
    + 5 * Len(SelectSeq(SplitWhitespace(text), LAMBDA word : IsSimilar(term, word)))

RECURSIVE SemanticScore(_, _)
SemanticScore(text, queryTerms) ==
    IF queryTerms = <<>> THEN 0
    ELSE TermSemanticScore(text, Head(queryTerms)) + SemanticScore(text, Tail(queryTerms))

\* `${site.name} ${site.description} ${site.notes} ${site.url}`.toLowerCase()
SiteText(site) ==
    ToLowerCase(Template(site.name) \o Space \o Template(site.description) \o Space
                \o Template(site.notes) \o Space \o Template(site.url))

\* `${group.name}`.toLowerCase()
GroupText(group) == ToLowerCase(Template(group.name))

\* performSemanticSearch
PerformSemanticSearch(query, gs, ss) ==
    LET queryTerms == Terms(ToLowerCase(query))
    IN MapResults(SelectSeq(ss, LAMBDA site : SemanticScore(SiteText(site), queryTerms) > 0),
                  LAMBDA site : ResultItem("site", site, <<"semantic">>,
                                           SemanticScore(SiteText(site), queryTerms)))
       \o MapResults(SelectSeq(gs, LAMBDA group :
                                   SemanticScore(GroupText(group), queryTerms) > 0),
                     LAMBDA group : ResultItem("group", group, <<"semantic">>,
                                               SemanticScore(GroupText(group), queryTerms)))

\* What seenIds holds for a result: `seenIds.has(item.id)`
SeenKey(item) == item.id

\* The three loops of mergeAndDeduplicate over basic, smart and semantic
RECURSIVE Deduplicate(_, _, _)
Deduplicate(items, seenIds, results) ==
    IF items = <<>> THEN results
    ELSE IF SeenKey(Head(items)) \in seenIds
         THEN Deduplicate(Tail(items), seenIds, results)
         ELSE Deduplicate(Tail(items), seenIds \cup {SeenKey(Head(items))},
                          Append(results, Head(items)))

\* The comparator of mergeAndDeduplicate (lines 602-609)
CompareMerged(a, b) ==
    IF a.type # b.type
    THEN (IF a.type = "site" THEN -1 ELSE 1)
    ELSE Len(b.matchedFields) - Len(a.matchedFields)

\* mergeAndDeduplicate
MergeAndDeduplicate(basic, smart, semantic) ==
    Sort(Deduplicate(basic \o smart \o semantic, {}, <<>>), CompareMerged)

\* (a bug variant: the lower semanticScore first)
CompareRelevanceAscending(a, b) ==
    IF a.semanticScore # b.semanticScore
    THEN a.semanticScore - b.semanticScore
    ELSE IF a.type # b.type
    THEN (IF a.type = "site" THEN -1 ELSE 1)
    ELSE Len(b.matchedFields) - Len(a.matchedFields)

\* The comparator of sortByRelevance (lines 720-737)
CompareRelevance(a, b) ==
    IF a.semanticScore # b.semanticScore
    THEN b.semanticScore - a.semanticScore
    ELSE IF a.type # b.type
    THEN (IF a.type = "site" THEN -1 ELSE 1)
    ELSE Len(b.matchedFields) - Len(a.matchedFields)

\* sortByRelevance
SortByRelevance(results, query) == Sort(results, CompareRelevance)

\* The results of the three passes put together, before any sorting
MergedResults(query, gs, ss) ==
    Deduplicate(PerformBasicSearch(query, gs, ss) \o PerformSmartSearch(query, gs, ss)
                \o PerformSemanticSearch(query, gs, ss), {}, <<>>)

\* search, for a query that is not blank: lines 292-304 and 310
RankedResults(query, gs, ss) ==
    LET trimmedQuery == ToLowerCase(Trim(query))
    IN SortByRelevance(
           MergeAndDeduplicate(PerformBasicSearch(trimmedQuery, gs, ss),
                               PerformSmartSearch(trimmedQuery, gs, ss),
                               PerformSemanticSearch(trimmedQuery, gs, ss)),
           trimmedQuery)

\* created_at of a site that has none
NoDate == -1

\* (a bug variant: the oldest site first)
ComparePopularAscending(a, b) ==
    IF a.created_at = NoDate \/ b.created_at = NoDate THEN 0
    ELSE a.created_at - b.created_at

\* new Date(site.created_at || '').getTime(); an absent date gives NaN, and a
\* comparator result of NaN counts as 0
ComparePopular(a, b) ==
    IF a.created_at = NoDate \/ b.created_at = NoDate THEN 0
    ELSE b.created_at - a.created_at

\* (a bug variant: the sort works on the caller's array)
SitesSortedInPlace(ss) == Sort(ss, ComparePopular)

\* The caller's array after getPopularRecommendations: `[...sites]` is a copy,
\* and it is the copy that sort reorders
SitesAfterPopular(ss) == ss

\* The cap of getPopularRecommendations: slice(0, 10)
PopularLimit == 10

\* getPopularRecommendations
GetPopularRecommendations(gs, ss) ==
    MapResults(Slice(Sort(ss, ComparePopular), PopularLimit),
               LAMBDA site : ResultItem("site", site, <<"name">>, 0))

---------------------------------------------------------------------------
(* SmartSearchEngine: the search history and its record in localStorage *)

maxHistoryItems == 100

\* selectedId of an entry no selection was recorded for
NoSelection == 0

\* A SearchHistoryItem
HistoryItem(query, timestamp, resultsCount) ==
    [query |-> query, timestamp |-> timestamp, resultsCount |-> resultsCount,
     selectedId |-> NoSelection]

\* JSON.stringify(this.searchHistory): the text of an array
JSONStringify(history) == [kind |-> "array", value |-> history]

\* No item under the key, and an item whose text JSON.parse rejects
StorageAbsent == [kind |-> "absent", value |-> <<>>]
StorageGarbage == [kind |-> "garbage", value |-> <<>>]

\* (a bug variant: the catch leaves whatever the item holds)
LoadSearchHistoryUnguarded(item, readOk) ==
    IF item.kind = "array" THEN item.value ELSE <<>>

\* loadSearchHistory: the history a new engine starts with.  readOk is whether
\* localStorage.getItem returns; the field starts as [] and stays so when the
\* item is missing, and the catch resets it to [] when reading or parsing throws.
LoadSearchHistory(item, readOk) ==
    IF ~readOk THEN <<>>
    ELSE IF item.kind = "array" THEN item.value
    ELSE <<>>

\* saveSearchHistory: the item left in localStorage.  writeOk is whether
\* localStorage.setItem returns; its error is caught.
SaveSearchHistory(history, item, writeOk) ==
    IF writeOk THEN JSONStringify(history) ELSE item

\* recordSearch: the history it leaves in memory
RecordSearch(history, query, resultsCount, t) ==
    LET added == <<HistoryItem(query, t, resultsCount)>> \o history
    IN IF Len(added) > maxHistoryItems THEN Slice(added, maxHistoryItems) ELSE added

\* getPopularQueries: the distinct queries in order of first appearance with
\* their counts, most frequent first, at most 10
PopularQueriesLimit == 10

DistinctQueries(history) ==
    LET firsts == {i \in 1..Len(history) :
                      \A j \in 1..(i - 1) : history[j].query # history[i].query}
    IN [k \in 1..Cardinality(firsts) |->
           history[CHOOSE i \in firsts : Cardinality({j \in firsts : j < i}) = k - 1].query]

CompareCounts(a, b) == b.count - a.count

GetPopularQueries(history) ==
    Slice(Sort(MapResults(DistinctQueries(history),
                          LAMBDA text :
                              [text |-> text,
                               count |-> Len(SelectSeq(history, LAMBDA e : e.query = text))]),
               CompareCounts),
          PopularQueriesLimit)

\* The filter at the end of getAutocompleteSuggestions, and the test before
\* the push in getSuggestions: the first suggestion of each text stays
RECURSIVE DistinctTexts(_, _)
DistinctTexts(suggestions, seen) ==
    IF suggestions = <<>> THEN <<>>
    ELSE IF Head(suggestions).text \in seen THEN DistinctTexts(Tail(suggestions), seen)
    ELSE <<Head(suggestions)>>
         \o DistinctTexts(Tail(suggestions), seen \cup {Head(suggestions).text})

\* getAutocompleteSuggestions
GetAutocompleteSuggestions(query, gs, ss) ==
    LET lowerQuery == ToLowerCase(query)
        Completes(item) ==
            StartsWith(ToLowerCase(item.name), lowerQuery) /\ item.name # query
        Related(item) == [text |-> item.name, type |-> "related", count |-> 0]
    IN DistinctTexts(MapResults(SelectSeq(ss, Completes), Related)
                     \o MapResults(SelectSeq(gs, Completes), Related), {})

\* The cap of getSuggestions: slice(0, 5)
SuggestionsLimit == 5

\* getSuggestions
Suggestions(history, query, gs, ss) ==
    LET popular ==
            MapResults(SelectSeq(GetPopularQueries(history),
                                 LAMBDA p : /\ Includes(ToLowerCase(p.text), ToLowerCase(query))
                                            /\ p.text # query),
                       LAMBDA p : [text |-> p.text, type |-> "popular", count |-> p.count])
    IN Slice(DistinctTexts(popular \o GetAutocompleteSuggestions(query, gs, ss), {}),
             SuggestionsLimit)

\* (a, b) => b.timestamp - a.timestamp
CompareTimestamps(a, b) == b.timestamp - a.timestamp

\* The window of recordSelection: 5 minutes
SelectionWindow == 300000

\* (a bug variant: an entry exactly 5 minutes old still counts)
FindSelectableAtBoundary(history, query, t) ==
    IF \E i \in 1..Len(history) :
           history[i].query = query /\ history[i].timestamp >= t - SelectionWindow
    THEN CHOOSE i \in 1..Len(history) :
           /\ history[i].query = query /\ history[i].timestamp >= t - SelectionWindow
           /\ \A j \in 1..(i - 1) :
                 ~(history[j].query = query /\ history[j].timestamp >= t - SelectionWindow)
    ELSE 0

\* Index of the entry recordSelection finds, 0 when it finds none
FindSelectable(history, query, t) ==
    IF \E i \in 1..Len(history) :
           history[i].query = query /\ history[i].timestamp > t - SelectionWindow
    THEN CHOOSE i \in 1..Len(history) :
           /\ history[i].query = query /\ history[i].timestamp > t - SelectionWindow
           /\ \A j \in 1..(i - 1) :
                 ~(history[j].query = query /\ history[j].timestamp > t - SelectionWindow)
    ELSE 0

---------------------------------------------------------------------------
(* SmartSearchEngine: records, queries and the public operations *)

Txt_abc == <<"a","b","c">>
Txt_abcdef == <<"a","b","c","d","e","f">>
Txt_x == <<"x">>

SiteRecord(id, name, url, description, created_at) ==
    [id |-> id, group_id |-> 1, name |-> name, url |-> url,
     description |-> description, notes |-> Undefined, created_at |-> created_at]

GroupRecord(id, name) == [id |-> id, name |-> name]

SiteAbc     == SiteRecord(1, Txt_abc, Txt_x, Undefined, 1)
SiteAbcdef  == SiteRecord(2, Txt_abcdef, Txt_x, Undefined, 2)
SiteAb      == SiteRecord(3, <<"A","b">>, Txt_x, Undefined, 3)
SiteAandB   == SiteRecord(4, <<"a">>, <<"b">>, Undefined, 4)
SiteTwice   == SiteRecord(5, <<"A","b","c">>, Txt_x, <<"a","b","c"," ","x">>, 5)
GroupAbc    == GroupRecord(1, Txt_abc)
GroupAb     == GroupRecord(6, <<"a","b">>)

\* One site more than the popular list holds, created in no particular order,
\* the first and the last of them at the same time
ManySites ==
    [i \in 1..(PopularLimit + 1) |->
        SiteRecord(10 + i, <<"n">>, Txt_x, Undefined, (i * 7) % PopularLimit)]

\* The collections a caller holds: [groups, sites]
Catalogs ==
    { [groups |-> <<>>, sites |-> <<>>],
      [groups |-> NullCollection, sites |-> NullCollection],
      [groups |-> NullCollection, sites |-> <<>>],
      [groups |-> <<>>, sites |-> NullCollection],
      [groups |-> <<GroupAbc>>, sites |-> <<SiteAbc, SiteAbcdef>>],
      [groups |-> <<GroupAbc>>, sites |-> <<SiteAbcdef, SiteAbc>>],
      [groups |-> <<GroupAb>>, sites |-> <<SiteAb, SiteAbc, SiteAandB>>],
      [groups |-> <<GroupAb, GroupAbc>>, sites |-> <<SiteTwice, SiteAb>>],
      [groups |-> <<GroupAb>>, sites |-> <<SiteAbcdef, SiteAandB, SiteAbc, SiteAb>>],
      [groups |-> <<GroupAbc>>, sites |-> ManySites] }

Queries ==
    { <<>>, <<" ">>, Txt_abc, <<" ","A","b","c">>, <<"a","b">>, <<"a"," ","b">>,
      <<"n","d">> }

\* `for (const x of null)` and `[...null]` throw a TypeError
TypeError == <<"TypeError">>

\* search throws for a blank query when sites is null, and for any other
\* query when either collection is null
SearchThrows(query) ==
    IF IsBlank(query) THEN sites = NullCollection
    ELSE sites = NullCollection \/ groups = NullCollection

\* Number of entries recorded since the clock started
Recorded(history) == Len(SelectSeq(history, LAMBDA e : e.timestamp >= 0))

\* search(query, groups, sites)
Search(query, writeOk) ==
    /\ IsBlank(query) \/ SearchThrows(query) \/ Recorded(searchHistory) < MaxSearches
    /\ IF SearchThrows(query)
       THEN /\ last' = Last("search", query, "throw", TypeError)
            /\ UNCHANGED <<searchHistory, storage, sites>>
       ELSE IF IsBlank(query)
       THEN /\ last' = Last("search", query, "ok", GetPopularRecommendations(groups, sites))
            /\ sites' = SitesAfterPopular(sites)
            /\ UNCHANGED <<searchHistory, storage>>
       ELSE LET results == RankedResults(query, groups, sites)
                recorded == RecordSearch(searchHistory, query, Len(results), now)
            IN /\ last' = Last("search", query, "ok", results)
               /\ searchHistory' = recorded
               /\ storage' = SaveSearchHistory(recorded, storage, writeOk)
               /\ UNCHANGED sites
    /\ UNCHANGED <<cacheVars, now, groups>>

\* getSuggestions(query, groups, sites)
GetSuggestions(query) ==
    /\ last' = IF sites = NullCollection \/ groups = NullCollection
               THEN Last("getSuggestions", query, "throw", TypeError)
               ELSE Last("getSuggestions", query, "ok",
                         Suggestions(searchHistory, query, groups, sites))
    /\ UNCHANGED <<cacheVars, now, engineVars>>

\* getRecommendations(count): sorts this.searchHistory in place; what is
\* recorded of the result are the queries the recommendations are built from
GetRecommendations(count) ==
    /\ searchHistory' = Sort(searchHistory, CompareTimestamps)
    /\ last' = Last("getRecommendations", <<>>, "ok",
                    MapResults(Slice(Slice(Sort(searchHistory, CompareTimestamps), 10), count),
                               LAMBDA e : e.query))
    /\ UNCHANGED <<cacheVars, now, storage, groups, sites>>

\* recordSelection(query, selectedId)
RecordSelection(query, selectedId, writeOk) ==
    /\ LET i == FindSelectable(searchHistory, query, now)
       IN IF i = 0
          THEN UNCHANGED <<searchHistory, storage>>
          ELSE LET selected == [searchHistory EXCEPT ![i].selectedId = selectedId]
               IN /\ searchHistory' = selected
                  /\ storage' = SaveSearchHistory(selected, storage, writeOk)
    /\ last' = Last("recordSelection", query, "ok", <<>>)
    /\ UNCHANGED <<cacheVars, now, groups, sites>>

\* new SmartSearchEngine(): the page is loaded again
Construct(readOk) ==
    /\ searchHistory' = LoadSearchHistory(storage, readOk)
    /\ last' = Last("new", <<>>, IF readOk THEN "ok" ELSE "unreadable", <<>>)
    /\ UNCHANGED <<cacheVars, now, storage, groups, sites>>

InitEngine(catalog, item, readOk) ==
    /\ store = <<>>
    /\ maxSize = NavMaxSize
    /\ now = 0
    /\ stats = [hits |-> 0, misses |-> 0]
    /\ calls = [c \in CallIds |-> IdleCall]
    /\ fetches = 0
    /\ groups = catalog.groups
    /\ sites = catalog.sites
    /\ storage = item
    /\ searchHistory = LoadSearchHistory(item, readOk)
    /\ last = Last("new", <<>>, IF readOk THEN "ok" ELSE "unreadable", <<>>)

\* Searches over every catalog, with a storage that works
InitSearch == \E catalog \in Catalogs : InitEngine(catalog, StorageAbsent, TRUE)

SearchAny == \E query \in Queries : Search(query, TRUE)

NextSearch == SearchAny

SpecSearch == InitSearch /\ [][NextSearch]_vars

---------------------------------------------------------------------------
(* SmartSearchEngine: the history across page loads, with a storage that can fail *)

\* The entries of a history record found in localStorage: entry i was
\* recorded i milliseconds before the clock of the model starts
StoredEntry(i) == HistoryItem(Txt_abc, 0 - i, 0)

StoredHistory(n) == [i \in 1..n |-> StoredEntry(i)]

StoredLengths == {0, maxHistoryItems - 1, maxHistoryItems + 1}

\* What localStorage can hold under 'smart-search-history' at a page load
\* The record an engine wrote whose two searches read the clock at -1 and then,
\* the clock of the machine having been set back in between, at -2
StoredOutOfOrder == <<StoredEntry(2), StoredEntry(1)>>

\* A text of n letters x
Xs(n) == [i \in 1..n |-> "x"]

\* The record of one search more than getPopularQueries keeps queries, each
\* with a query of its own: "abcdef" first, then "x", "xx", ... (the latest)
StoredManyQueries ==
    [i \in 1..(PopularQueriesLimit + 1) |->
        HistoryItem(IF i = PopularQueriesLimit + 1 THEN Txt_abcdef
                    ELSE Xs(PopularQueriesLimit + 1 - i), 0 - i, 0)]

StoredItems ==
    {StorageAbsent, StorageGarbage, JSONStringify(StoredOutOfOrder),
     JSONStringify(StoredManyQueries)}
    \cup {JSONStringify(StoredHistory(n)) : n \in StoredLengths}

HistoryCatalog == [groups |-> <<GroupAbc>>, sites |-> <<SiteAbc, SiteAbcdef>>]

HistoryQueries == {<<" ">>, Txt_abc}

SelectedIds == {1}

RecommendationCounts == {5}

InitHistory ==
    \E item \in StoredItems, readOk \in BOOLEAN : InitEngine(HistoryCatalog, item, readOk)

SearchStoring == \E query \in HistoryQueries, writeOk \in BOOLEAN : Search(query, writeOk)
GetSuggestionsAny == \E query \in HistoryQueries : GetSuggestions(query)
GetRecommendationsAny == \E count \in RecommendationCounts : GetRecommendations(count)
RecordSelectionAny ==
    \E query \in HistoryQueries, selectedId \in SelectedIds, writeOk \in BOOLEAN :
        RecordSelection(query, selectedId, writeOk)
ConstructAny == \E readOk \in BOOLEAN : Construct(readOk)

NextHistory ==
    \/ SearchStoring
    \/ GetSuggestionsAny
    \/ GetRecommendationsAny
    \/ RecordSelectionAny
    \/ ConstructAny

SpecHistory == InitHistory /\ [][NextHistory]_vars

---------------------------------------------------------------------------
(* Properties of SmartSearchEngine.search (checked under SpecSearch) *)

\* The last operation was a search with a query that is not blank, and it returned
SearchReturned ==
    /\ last.op = "search"
    /\ last.kind = "ok"
    /\ Trim(last.key) # <<>>

\* The query the passes are given: trimmed and lower-cased
Normalized(query) == ToLowerCase(Trim(query))

\* Everything the three passes produce for the query, in pass order
PassResults(query, gs, ss) ==
    PerformBasicSearch(Normalized(query), gs, ss)
    \o PerformSmartSearch(Normalized(query), gs, ss)
    \o PerformSemanticSearch(Normalized(query), gs, ss)

\* How often the record of that kind and id occurs in a result list
Occurrences(results, type, id) ==
    Cardinality({i \in 1..Len(results) : results[i].type = type /\ results[i].id = id})

\* C11: merge keeps every matched record exactly once -- for a query that is
\* not empty, every site and every group that at least one of the three passes
\* returns is in the list search returns exactly once, identified by its kind
\* together with its id; a site and a group with the same id that both match
\* are both in the list.
C11_MergeKeepsEveryRecord ==
    SearchReturned =>
        LET passed == PassResults(last.key, groups, sites)
        IN \A i \in 1..Len(passed) :
               Occurrences(last.ret, passed[i].type, passed[i].id) = 1

\* Index of the first result of that kind and name in a list, 0 when there is none
IndexOfNamed(results, type, name) ==
    IF \E i \in 1..Len(results) : results[i].type = type /\ results[i].name = name
    THEN CHOOSE i \in 1..Len(results) :
           /\ results[i].type = type /\ results[i].name = name
           /\ \A j \in 1..(i - 1) : ~(results[j].type = type /\ results[j].name = name)
    ELSE 0

\* A site of that name is in the collection
HasSiteNamed(ss, name) ==
    /\ ss # NullCollection
    /\ \E i \in 1..Len(ss) : ss[i].name = name

\* C12: ranking monotonicity -- for the query "abc" over sites that contain a
\* site named exactly "abc" and a site named "abcdef", in either input order,
\* both are returned and the site named "abc" stands at an index no greater
\* than that of the site named "abcdef".
C12_ExactNameRanksFirst ==
    ( /\ last.op = "search"
      /\ last.kind = "ok"
      /\ last.key = Txt_abc
      /\ HasSiteNamed(sites, Txt_abc)
      /\ HasSiteNamed(sites, Txt_abcdef) )
    => /\ IndexOfNamed(last.ret, "site", Txt_abc) >= 1
       /\ IndexOfNamed(last.ret, "site", Txt_abc)
              <= IndexOfNamed(last.ret, "site", Txt_abcdef)

\* The operation recorded in l is a search with an empty or whitespace-only query
BlankSearch(l) == l.op = "search" /\ Trim(l.key) = <<>>

\* C13: idempotent empty query -- a search with an empty or whitespace-only
\* query changes neither the search history nor the persisted history record,
\* and when it follows another such search over the same groups and sites it
\* has the same outcome, the same ordered list.
C13_BlankSearchIdempotent ==
    [][ BlankSearch(last') =>
           /\ searchHistory' = searchHistory
           /\ storage' = storage
           /\ BlankSearch(last) =>
                 /\ groups' = groups /\ sites' = sites
                 /\ last'.kind = last.kind
                 /\ last'.ret = last.ret ]_vars

\* A whitespace-only search returned the popular sites, several of them, with
\* a history that earlier searches have filled
C13_Witness ==
    /\ BlankSearch(last)
    /\ last.key # <<>>
    /\ last.kind = "ok"
    /\ Len(last.ret) >= 2
    /\ last.ret[1].id # last.ret[2].id
    /\ searchHistory # <<>>
    /\ storage = JSONStringify(searchHistory)

\* The textual fields of a record: name; for sites also url, description, notes
OwnFields(item) ==
    IF IsSite(item) THEN {"name", "url", "description", "notes"} ELSE {"name"}

\* The own fields of a record that, lower-cased, contain q
FieldsContaining(item, q) ==
    {f \in OwnFields(item) : item[f] # Undefined /\ Includes(ToLowerCase(item[f]), q)}

\* The results of a list that stand for the record
ResultsFor(results, type, item) ==
    {i \in 1..Len(results) : results[i].type = type /\ results[i].id = item.id}

\* The exact pass treats the record as the claim says
ExactPassAgrees(basic, type, item, q) ==
    /\ ResultsFor(basic, type, item) # {} <=> FieldsContaining(item, q) # {}
    /\ \A i \in ResultsFor(basic, type, item) :
          /\ basic[i].matchedFields # <<>>
          /\ {basic[i].matchedFields[k] : k \in 1..Len(basic[i].matchedFields)}
                = FieldsContaining(item, q)

\* C14: exact pass -- for a normalized query q that is not empty, the exact pass
\* produces a record if and only if at least one of its own textual fields
\* (name; for sites also url, description, notes), lower-cased, contains q, and
\* the matchedFields of the result are exactly those fields, so never empty.
C14_ExactPassByOwnFields ==
    SearchReturned =>
        LET q == Normalized(last.key)
            basic == PerformBasicSearch(q, groups, sites)
        IN /\ \A i \in 1..Len(sites) : ExactPassAgrees(basic, "site", sites[i], q)
           /\ \A i \in 1..Len(groups) : ExactPassAgrees(basic, "group", groups[i], q)

\* A collection that is an empty list or null
EmptyOrNull(collection) == collection = <<>> \/ collection = NullCollection

\* C17: search never fails on empty or malformed collections -- for every
\* query, empty or not, search with groups and sites each an empty list or
\* null returns an empty list and raises no error.
C17_NoFailureOnEmptyOrNull ==
    ( /\ last.op = "search"
      /\ EmptyOrNull(groups)
      /\ EmptyOrNull(sites) )
    => /\ last.kind = "ok"
       /\ last.ret = <<>>

\* C19: the semantic score survives the merge -- whenever the semantic pass
\* produces a result for a record with semanticScore s > 0, the merged entry
\* for that record in the list search returns carries semanticScore s, also
\* when the exact or the weighted pass produced the record first.
C19_SemanticScoreSurvives ==
    SearchReturned =>
        LET semantic == PerformSemanticSearch(Normalized(last.key), groups, sites)
        IN \A i \in 1..Len(semantic) :
               \E k \in 1..Len(last.ret) :
                   /\ last.ret[k].type = semantic[i].type
                   /\ last.ret[k].id = semantic[i].id
                   /\ last.ret[k].semanticScore = semantic[i].semanticScore

\* Two results agree on the three keys of the final ordering
SameRank(a, b) ==
    /\ a.semanticScore = b.semanticScore
    /\ a.type = b.type
    /\ Len(a.matchedFields) = Len(b.matchedFields)

\* Where the passes enumerated the record of a result: its index in the merged
\* list before any sorting
PassPosition(merged, x) ==
    CHOOSE k \in 1..Len(merged) : merged[k].type = x.type /\ merged[k].id = x.id

\* a may stand directly before b in the list search returns
RankedBefore(a, b, merged) ==
    /\ a.semanticScore >= b.semanticScore
    /\ a.semanticScore = b.semanticScore => (a.type = "site" \/ b.type = "group")
    /\ (a.semanticScore = b.semanticScore /\ a.type = b.type)
          => Len(a.matchedFields) >= Len(b.matchedFields)
    /\ SameRank(a, b) => PassPosition(merged, a) < PassPosition(merged, b)

\* C20: final ordering -- for every query that is not empty, any two adjacent
\* results a before b of the list search returns satisfy semanticScore(a) >=
\* semanticScore(b), absent counted as 0; if equal, a is a site or b is a group;
\* if the kinds are equal too, a has at least as many matchedFields as b; and
\* results equal on all three keys keep the order in which the passes
\* enumerated them.
C20_FinalOrdering ==
    SearchReturned =>
        LET merged == MergedResults(Normalized(last.key), groups, sites)
        IN \A i \in 1..(Len(last.ret) - 1) :
               RankedBefore(last.ret[i], last.ret[i + 1], merged)

\* A search returned results with and without a semantic score, sites and a
\* group among them, two of them equal on all three keys
C20_Witness ==
    /\ SearchReturned
    /\ \E i, j, k \in 1..Len(last.ret) :
          /\ last.ret[i].semanticScore > last.ret[j].semanticScore
          /\ last.ret[j].type # last.ret[k].type
          /\ last.ret[i].semanticScore > 0
    /\ \E i \in 1..(Len(last.ret) - 1) : SameRank(last.ret[i], last.ret[i + 1])

---------------------------------------------------------------------------
(* Properties of the search history (checked under SpecHistory) *)

\* C15: history bound -- in every reachable state of the engine, the state
\* right after construction from whatever history record durable storage holds
\* included, and after any sequence of search, getSuggestions,
\* getRecommendations and recordSelection calls, the number of history entries
\* is at most maxHistoryItems.
C15_HistoryBound == Len(searchHistory) <= maxHistoryItems

\* A history without its entry recorded earliest (the last one)
WithoutEarliest(history) == SubSeq(history, 1, Len(history) - 1)

\* C16: history append and oldest-first drop -- every search with a query that
\* is not empty adds exactly one history entry, holding the raw query and a
\* resultsCount equal to the length of the list the same call returns; when
\* the bound is exceeded, the one entry removed is the one recorded earliest.
C16_AppendAndDropOldest ==
    [][ ( /\ last'.op = "search"
          /\ last'.kind = "ok"
          /\ Trim(last'.key) # <<>> )
        => LET entry == HistoryItem(last'.key, now, Len(last'.ret))
           IN searchHistory' =
                 <<entry>> \o (IF Len(searchHistory) + 1 > maxHistoryItems
                               THEN WithoutEarliest(searchHistory)
                               ELSE searchHistory) ]_vars

\* The list search returns for the query when storage works
ExpectedList(query) ==
    IF IsBlank(query) THEN GetPopularRecommendations(groups, sites)
    ELSE RankedResults(query, groups, sites)

\* search with a write that fails: no error, the list of a working storage,
\* the entry in memory, the stored record as it was
SearchSurvivesWriteFailure ==
    \A query \in HistoryQueries :
        Search(query, FALSE) =>
            /\ last'.kind = "ok"
            /\ last'.ret = ExpectedList(query)
            /\ storage' = storage
            /\ \/ IsBlank(query) /\ searchHistory' = searchHistory
               \/ /\ ~IsBlank(query)
                  /\ searchHistory' # <<>>
                  /\ searchHistory'[1] = HistoryItem(query, now, Len(last'.ret))

\* recordSelection with a write that fails: no error, the selection in memory
SelectionSurvivesWriteFailure ==
    \A query \in HistoryQueries, selectedId \in SelectedIds :
        RecordSelection(query, selectedId, FALSE) =>
            /\ last'.kind = "ok"
            /\ storage' = storage
            /\ Len(searchHistory') = Len(searchHistory)
            /\ \A i \in 1..Len(searchHistory) :
                  i = FindSelectable(searchHistory, query, now)
                      => searchHistory'[i].selectedId = selectedId

\* construction with a read that fails, or over a text JSON.parse rejects: no
\* error, an empty history
ConstructSurvivesReadFailure ==
    /\ Construct(FALSE) => (last'.kind # "throw" /\ searchHistory' = <<>>)
    /\ (Construct(TRUE) /\ storage = StorageGarbage)
          => (last'.kind # "throw" /\ searchHistory' = <<>>)

\* C18: persistence failure is swallowed -- when the write to durable storage
\* fails during search or recordSelection, or the read fails or yields
\* unparsable data at construction, no error reaches the caller; search
\* returns the list it returns with working storage, and the history in memory
\* is updated all the same, or starts empty when the load failed.
C18_PersistenceFailureSwallowed ==
    [][ /\ last'.op = "search" => SearchSurvivesWriteFailure
        /\ last'.op = "recordSelection" => SelectionSurvivesWriteFailure
        /\ last'.op = "new" => ConstructSurvivesReadFailure ]_vars

\* A search has returned its results and recorded its entry in memory while
\* the write failed: the stored record lags behind a longer history in memory
C18_Witness ==
    /\ SearchReturned
    /\ last.ret # <<>>
    /\ Len(searchHistory) >= 2
    /\ searchHistory[1].query = last.key
    /\ storage.kind = "array"
    /\ Len(storage.value) < Len(searchHistory)

---------------------------------------------------------------------------
(* Properties of the popular list, the suggestions and the selections *)

\* The site of the input a result stands for
SiteOf(result) == sites[CHOOSE i \in 1..Len(sites) : sites[i].id = result.id]

\* The smaller of two numbers
Min(a, b) == IF a < b THEN a ELSE b

\* The sites of the input that a result list leaves out
LeftOut(results) ==
    {i \in 1..Len(sites) : \A k \in 1..Len(results) : results[k].id # sites[i].id}

\* C21: popular result set -- for an empty or whitespace-only query, search
\* over a list of sites returns min(10, |sites|) results, all of kind site and
\* never a group, each a different site of the input with matchedFields
\* {"name"} and no score, ordered by createdAt descending; no site left out
\* was created after a site returned.
C21_PopularResultSet ==
    ( BlankSearch(last) /\ sites # NullCollection )
    => /\ last.kind = "ok"
       /\ Len(last.ret) = Min(10, Len(sites))
       /\ \A k \in 1..Len(last.ret) :
             /\ last.ret[k].type = "site"
             /\ last.ret[k].matchedFields = <<"name">>
             /\ last.ret[k].semanticScore = 0
             /\ \E i \in 1..Len(sites) : sites[i].id = last.ret[k].id
             /\ SiteOf(last.ret[k]).name = last.ret[k].name
             /\ \A j \in 1..(k - 1) :
                   /\ last.ret[j].id # last.ret[k].id
                   /\ SiteOf(last.ret[j]).created_at >= SiteOf(last.ret[k]).created_at
             /\ \A i \in LeftOut(last.ret) :
                   sites[i].created_at <= SiteOf(last.ret[k]).created_at

\* A blank search over more than 10 sites returned 10 of them, not in the
\* order of the input
C21_Witness ==
    /\ BlankSearch(last)
    /\ last.kind = "ok"
    /\ Len(sites) > 10
    /\ Len(last.ret) = 10
    /\ last.ret[1].id # sites[1].id
    /\ LeftOut(last.ret) # {}

\* A public operation whose write to storage, if it makes one, succeeds
OperationWithWorkingStorage ==
    \/ last'.op = "search" /\ \E query \in HistoryQueries : Search(query, TRUE)
    \/ /\ last'.op = "recordSelection"
       /\ \E query \in HistoryQueries, selectedId \in SelectedIds :
             RecordSelection(query, selectedId, TRUE)
    \/ last'.op = "getRecommendations" /\ GetRecommendationsAny

\* C22: the persisted history mirrors memory -- provided storage writes
\* succeed, after every public operation that changes the history in memory (a
\* search with a query that is not empty, a recordSelection that finds an
\* entry, an in-place reordering by getRecommendations) the persisted record
\* equals the history in memory, entry for entry and in the same order, and a
\* new engine constructed afterwards starts with exactly that history.
C22_PersistedMirrorsMemory ==
    [][ ( /\ searchHistory' # searchHistory
          /\ OperationWithWorkingStorage )
        => /\ storage' = JSONStringify(searchHistory')
           /\ LoadSearchHistory(storage', TRUE) = searchHistory' ]_vars

\* Every distinct query of the history with the number of its occurrences,
\* the most frequent first
QueriesByCount(history) ==
    Sort(MapResults(DistinctQueries(history),
                    LAMBDA text :
                        [text |-> text,
                         count |-> Len(SelectSeq(history, LAMBDA e : e.query = text))]),
         CompareCounts)

\* (a): the past queries that contain p case-insensitively and are not p
PastQueriesContaining(history, p) ==
    MapResults(SelectSeq(QueriesByCount(history),
                         LAMBDA c : /\ Includes(ToLowerCase(c.text), ToLowerCase(p))
                                    /\ c.text # p),
               LAMBDA c : [text |-> c.text, type |-> "popular", count |-> c.count])

\* (b): the names of sites and groups that start with p case-insensitively
\* and are not p
NamesStartingWith(p, gs, ss) ==
    LET Starts(item) == StartsWith(ToLowerCase(item.name), ToLowerCase(p)) /\ item.name # p
        Named(item) == [text |-> item.name, type |-> "related", count |-> 0]
    IN MapResults(SelectSeq(ss, Starts), Named) \o MapResults(SelectSeq(gs, Starts), Named)

\* C23: suggestions -- getSuggestions(p, groups, sites) returns the first 5
\* elements of the list formed by (a) every distinct past query that contains
\* p case-insensitively and is not p, with the number of its occurrences, the
\* most frequent first, followed by (b) the names of sites and groups that
\* start with p case-insensitively and are not p, no text repeated; no past
\* query that contains p is missing from (a) because of how many other
\* queries the history holds.
C23_Suggestions ==
    ( last.op = "getSuggestions" /\ last.kind = "ok" )
    => last.ret =
          Slice(DistinctTexts(PastQueriesContaining(searchHistory, last.key)
                              \o NamesStartingWith(last.key, groups, sites), {}),
                5)

---------------------------------------------------------------------------
(* SmartSearchEngine: selections while the clock runs *)

SelectQueries == {Txt_abc, <<"a","b">>}

SelectableIds == {1, 2}

\* Date.now() between two calls: a millisecond later, or a millisecond less
\* than 5 minutes later
Waits == {1, SelectionWindow - 1}

\* The times of the calls after the first: around the end of the 5 minutes
\* that follow a search at 0 or at 1
Instants == {1, SelectionWindow - 1, SelectionWindow, SelectionWindow + 1}

\* Time passes between two calls
Wait(d) ==
    /\ now + d \in Instants
    /\ now' = now + d
    /\ last' = Last("wait", <<>>, "", <<>>)
    /\ UNCHANGED <<cacheVars, engineVars>>

\* The storage works
InitSelect == InitEngine(HistoryCatalog, StorageAbsent, TRUE)

SearchSelect == \E query \in SelectQueries : Search(query, TRUE)
RecordSelectionSelect ==
    \E query \in SelectQueries, selectedId \in SelectableIds :
        RecordSelection(query, selectedId, TRUE)
WaitAny == \E d \in Waits : Wait(d)

NextSelect ==
    \/ SearchSelect
    \/ RecordSelectionSelect
    \/ GetRecommendationsAny
    \/ WaitAny

SpecSelect == InitSelect /\ [][NextSelect]_vars

\* The entries of the history a selection for the query can go to: those of
\* that query less than 5 minutes old
Selectable(history, query, t) ==
    {i \in 1..Len(history) :
        history[i].query = query /\ t - history[i].timestamp < 5 * 60 * 1000}

\* The most recently recorded of a set of entries: recordSearch puts each new
\* entry in front
MostRecent(entries) == CHOOSE i \in entries : \A j \in entries : i <= j

---------------------------------------------------------------------------
(* Properties of the weighted pass and of the inputs (checked under SpecSearch) *)

\* The records of a collection whose name, lower-cased, is the term
NamedExactly(collection, term) ==
    {i \in 1..Len(collection) : ToLowerCase(collection[i].name) = term}

\* The score of a record all of whose terms matched and summed to points:
\* one and a half times the points, counted in halves of a point
WithBonus(points) == 3 * points

\* C25: weighted multi-term pass -- the score of a record is the sum over the
\* terms of the query of 100 when the record's text equals the term, else 50
\* when it starts with it, else 20 when it contains it, else 5 when the term
\* is a character subsequence of it, multiplied by 1.5 when every term
\* matched; in particular a site or a group whose name equals a single-term
\* query scores the exact-match 100 for that term, 150 with the bonus.
C25_ExactNameScores100 ==
    SearchReturned =>
        LET queryTerms == Terms(Normalized(last.key))
        IN Len(queryTerms) = 1 =>
              /\ \A i \in NamedExactly(sites, queryTerms[1]) :
                    CalculateRelevanceScore(sites[i], queryTerms) = WithBonus(100)
              /\ \A i \in NamedExactly(groups, queryTerms[1]) :
                    CalculateRelevanceScore(groups[i], queryTerms) = WithBonus(100)

---------------------------------------------------------------------------
(* Properties of the engine's operations towards the caller's collections
   (checked under SpecHistory) *)

---------------------------------------------------------------------------
(* Further properties of the coordinator and of the generic store *)

\* The invalidation covers the key: its type is "all", or the filter of
\* invalidate takes the key for one of that type
Covers(type, key) == type = "all" \/ InvalidateMatches(type, key)

\* C27: invalidation versus an in-flight fetch -- when a read of key k has
\* started its fetch and invalidate for k's collection (or "all") is called
\* before that fetch completes, the value the fetch returns is not left in the
\* store as a fresh entry: the first read of k after both invokes its fetch
\* function again.  (Checked on the fetch that completes right after the
\* invalidation.)
C27_InvalidationBeatsInFlightFetch ==
    [][ ( /\ last.op = "invalidate"
          /\ last'.op = "read"
          /\ last'.kind = "fetched"
          /\ Covers(last.ret, last'.key) )
        => ~ReadHits(store', last'.key, now') ]_vars

\* The entry is in the store, as it is
Kept(s, e) == MapHas(s, e.key) /\ MapGet(s, e.key) = e

\* C28: overwriting does not evict -- set(k, v) for a key k that is present
\* and fresh replaces only k's entry; every other fresh key stays in the store
\* with its entry unchanged, also when the store holds capacity entries.
C28_OverwriteDoesNotEvict ==
    [][ ( /\ last'.op = "set"
          /\ MapHas(store, last'.key)
          /\ ~Expired(MapGet(store, last'.key), now) )
        => \A i \in 1..Len(store) :
               ( store[i].key # last'.key /\ ~Expired(store[i], now) )
                   => Kept(store', store[i]) ]_vars

\* The step is an unforced read of a key whose entry in the store is fresh:
\* either a hit, or a miss that suspends a read with forceRefresh = false
UnforcedReadOfFresh ==
    /\ last'.op = "read"
    /\ \/ last'.kind = "hit"
       \/ /\ last'.kind = "start"
          /\ \E c \in CallIds :
                calls[c].pc = "idle" /\ calls'[c].pc = "fetching" /\ ~calls'[c].force
    /\ MapHas(store, last'.key)
    /\ ~Expired(MapGet(store, last'.key), now)

\* C29: a hit does not depend on the cached value -- for every value a fetch
\* function can return, the empty string, 0, false and null included, the
\* next read of the key within the TTL (forceRefresh = false, no invalidate in
\* between) is counted as a hit and does not invoke the fetch function, and
\* has(key) is true for the stored entry.
C29_HitWhateverTheValue ==
    [][ UnforcedReadOfFresh
        => /\ last'.kind = "hit"
           /\ stats'.hits = stats.hits + 1
           /\ fetches' = fetches
           /\ CacheHas(store, last'.key, now) ]_vars

\* The keys of a collection among those the coordinator writes
KeysOf(type, key) ==
    \/ type = "groups" /\ key = KeyGroupsWithSites
    \/ type = "sites" /\ (key = KeyAllSites \/ StartsWith(key, KeySitesGroupPfx))
    \/ type = "configs" /\ key = KeyConfigs

\* C30: invalidation touches only its own collection -- over the keys the
\* coordinator writes ("groupsWithSites", "all_sites", "sites_group_<id>",
\* "configs"), invalidate("groups") removes exactly "groupsWithSites",
\* invalidate("sites") exactly "all_sites" and every "sites_group_<id>",
\* invalidate("configs") exactly "configs"; every other fresh entry keeps its
\* value and storedAt.
C30_InvalidationOwnCollection ==
    [][ ( last'.op = "invalidate" /\ last'.ret # "all" )
        => \A i \in 1..Len(store) :
               ~Expired(store[i], now)
                   => IF KeysOf(last'.ret, store[i].key)
                      THEN ~MapHas(store', store[i].key)
                      ELSE Kept(store', store[i]) ]_vars

====
